---- MODULE Spec2Model ----
(***************************************************************************)
(* Model of src/src/server.py (docker-volume-image): the volume database   *)
(* `volumeDB` (a portalocker.Lock around a JSON state file) and the        *)
(* request handlers built on it.                                           *)
(*                                                                         *)
(* Request handlers run concurrently (threads of the web server, or two    *)
(* plugin processes sharing the state file).  A handler is cut into steps  *)
(* at its system calls on the state file and its lock:                     *)
(*                                                                         *)
(*   idle --volumeCreate/Remove/Get--> lock --Acquire--> body              *)
(*   body --Commit--> flushed --Unlock--> unlocked --Close--> idle         *)
(*   body --Abort--> idle                                                  *)
(*   body --getVolume--> idle | resolve --getVolumePath--> idle            *)
(*   body --listEntry--> nested --getVolumeNested--> body | idle           *)
(*   body --listReturn--> idle                                             *)
(*                                                                         *)
(* Library behaviour the handlers rely on (portalocker.Lock, io, fcntl):   *)
(*  - Lock(filename, mode) keeps the default flags LOCK_EX | LOCK_NB for   *)
(*    every mode, and the default timeout; acquire() opens the file first  *)
(*    (mode 'a+' creates it), then retries flock() until the timeout and   *)
(*    raises LockException when it is never granted.                       *)
(*  - flock() locks belong to the open file description: two handles of    *)
(*    one process exclude each other exactly as two processes do.          *)
(*  - release() is `unlock(fh); fh.close()`; text written to fh stays in   *)
(*    the file object's buffer until close(), truncate() acts at once, and *)
(*    a file opened 'a+' writes at the end of the file.                    *)
(***************************************************************************)
EXTENDS Integers, Sequences, FiniteSets, TLC

(* ---- bounds ---- *)
NumProcs == 2
MaxReqs == 2

Procs == 1..NumProcs

(* ---- values ---- *)
\* Python strings are sequences of symbols; None is distinct from all of them.
None == <<"<None>">>
Names == {"a", "b"}
NameOrder == <<"a", "b">>
\* A request Name that is a JSON list: dict access with it raises TypeError.
Unhashable == "[]"
\* The Opts of the Create requests, <<image, path>>: an image without and one
\* with a tag; the path absent, empty, relative and absolute.
CreateOpts ==
    {<<<<"x">>, None>>, <<<<"y", ":", "1">>, <<>>>>, <<<<"x">>, <<"d">>>>,
     <<<<"y", ":", "1">>, <<"/", "d">>>>}
UpperDir == <<"/", "up">>

EmptyMap == [n \in {} |-> None]

(* ---- pure functions ---- *)
\* (variant: the default tag is appended to every image name)
imageName_AlwaysTag(image) == image \o <<":", "latest">>

imageName(image) ==
    image \o (IF \E i \in DOMAIN image : image[i] = ":" THEN <<>> ELSE <<":", "latest">>)

\* volumes[name] = {...} and volumes.pop(name, None)
Put(m, n, r) == [k \in (DOMAIN m) \cup {n} |-> IF k = n THEN r ELSE m[k]]
\* (variant: removing a registered name empties the mapping)
Pop_All(m, n) == IF n \in DOMAIN m THEN [k \in {} |-> <<>>] ELSE m
Pop(m, n) == [k \in (DOMAIN m) \ {n} |-> m[k]]

\* dict.get('path')
GetPath(r) == IF "path" \in DOMAIN r THEN r["path"] ELSE None

\* (variant: `if not value` instead of `if value is None`)
cleanupEntry_Falsy(r) == [k \in {j \in DOMAIN r : r[j] # None /\ r[j] # <<>>} |-> r[k]]

\* cleanupDict on one volume entry (the nested dict): drop keys whose value is None
cleanupEntry(r) == [k \in {j \in DOMAIN r : r[j] # None} |-> r[k]]
\* cleanupDict on the database: its values are dicts, each cleaned recursively
cleanupDict(src) == [n \in DOMAIN src |-> cleanupEntry(src[n])]

\* The JSON text as a sequence of tokens: "{", one token per entry, "}".
\* A token is <<kind, key, value>>.
TokOpen == <<"{", "", EmptyMap>>
TokClose == <<"}", "", EmptyMap>>
TokEntry(n, r) == <<"entry", n, r>>
TokKind(t) == t[1]
TokName(t) == t[2]
TokRec(t) == t[3]

RECURSIVE Entries(_, _)
Entries(m, i) ==
    IF i > Len(NameOrder) THEN <<>>
    ELSE (IF NameOrder[i] \in DOMAIN m
          THEN <<TokEntry(NameOrder[i], m[NameOrder[i]])>> ELSE <<>>)
         \o Entries(m, i + 1)

jsonDump(m) == <<TokOpen>> \o Entries(m, 1) \o <<TokClose>>

\* json.load accepts exactly one complete object
jsonValid(bytes) ==
    /\ Len(bytes) >= 2
    /\ TokKind(bytes[1]) = "{"
    /\ TokKind(bytes[Len(bytes)]) = "}"
    /\ \A i \in 2..(Len(bytes) - 1) : TokKind(bytes[i]) = "entry"

jsonLoad(bytes) ==
    LET idx == 2..(Len(bytes) - 1)
        keys == {TokName(bytes[i]) : i \in idx}
        last(n) == CHOOSE i \in idx : TokName(bytes[i]) = n
                        /\ \A j \in idx : TokName(bytes[j]) = n => j <= i
    IN [n \in keys |-> TokRec(bytes[last(n)])]

\* (variant: a parser that accepts any text that starts an object)
LoadFails_Lenient(bytes) == Len(bytes) > 0 /\ TokKind(bytes[1]) # "{"

\* volumeDB.__enter__ once the lock is held: what the scope gets to see
LoadFails(bytes) == Len(bytes) > 0 /\ ~jsonValid(bytes)
LoadData(bytes) == IF Len(bytes) > 0 THEN jsonLoad(bytes) ELSE EmptyMap

\* a request is <<op, Name, image, path>>
ReqOp(r) == r[1]
ReqName(r) == r[2]
ReqImage(r) == r[3]
ReqPath(r) == r[4]

\* (variant: Create keeps the record of a name that is registered already)
ApplyReq_KeepExisting(r, m) ==
    IF ReqOp(r) = "Create"
    THEN (IF ReqName(r) \in DOMAIN m THEN m
          ELSE Put(m, ReqName(r),
                   [k \in {"image", "path"} |-> IF k = "image" THEN ReqImage(r) ELSE ReqPath(r)]))
    ELSE Pop(m, ReqName(r))

\* (variant: Create on a registered name keeps the old path when the request
\* has none)
ApplyReq_MergeExisting(r, m) ==
    IF ReqOp(r) = "Create"
    THEN Put(m, ReqName(r),
             [k \in {"image", "path"} |->
                 IF k = "image" THEN ReqImage(r)
                 ELSE IF ReqPath(r) = None /\ ReqName(r) \in DOMAIN m
                      THEN GetPath(m[ReqName(r)]) ELSE ReqPath(r)])
    ELSE Pop(m, ReqName(r))

\* the body of volumeCreate / volumeRemove on the mapping of the scope
ApplyReq(r, m) ==
    IF ReqOp(r) = "Create"
    THEN Put(m, ReqName(r),
             [k \in {"image", "path"} |-> IF k = "image" THEN ReqImage(r) ELSE ReqPath(r)])
    ELSE Pop(m, ReqName(r))

\* (variant: `if volPath is not None` instead of `if volPath`)
JoinPath_NotNone(imgPath, volPath) ==
    imgPath \o (IF volPath # None THEN <<"/">> \o volPath ELSE <<>>)

\* getVolumePath: join of the image's upper directory and the volume's path
JoinPath(imgPath, volPath) ==
    imgPath \o (IF volPath # None /\ volPath # <<>> THEN <<"/">> \o volPath ELSE <<>>)

(* ---- state ---- *)
VARIABLES
    fileExists,   \* the state file exists
    fileBytes,    \* its contents
    holders,      \* processes whose scope's file handle holds the flock
    orphan,       \* a handle lost by a failed __enter__ still holds the flock
    pc,           \* position of each process in its request
    req,          \* request being handled
    data,         \* volumeDB._data of the open scope
    buf,          \* text written to the handle and not yet written to the file
    result,       \* outcome of the last finished request
    expect,       \* registry after applying the committed write scopes in order
    prev,         \* registry before the latest write scope, until that scope is closed
    damage,       \* how the store found at start differs from what was persisted
    nreq          \* requests started

vars == <<fileExists, fileBytes, holders, orphan, pc, req, data, buf, result,
          expect, prev, damage, nreq>>

NoReq == <<"none", "", <<>>, None>>
\* the outcome of a request is <<status, value>>
Res(s, v) == <<s, v>>
Status(r) == r[1]
Value(r) == r[2]

\* getVolumePath(name, True) in volumeGet and volumeList, getVolumePath(name)
\* in volumeMount
Supress(r) == ReqOp(r) \in {"Get", "List"}

\* (variant: ImageNotFound is suppressed whatever the flag)
PathResult_AlwaysSupress(supress, vol, present) ==
    IF present THEN Res("ok", JoinPath(UpperDir, GetPath(vol)))
    ELSE Res("ok", None)

\* getVolumePath lines 197-206 on the volume found: the runtime has the image
\* (present) or raises ImageNotFound, which `supress` turns into a return of
\* None
PathResult(supress, vol, present) ==
    IF present THEN Res("ok", JoinPath(UpperDir, GetPath(vol)))
    ELSE IF supress THEN Res("ok", None)
    ELSE Res("ImageNotFound", None)

\* iteration over the mapping (volumeList line 479): its names in order
ListNames(m) == SelectSeq(NameOrder, LAMBDA n : n \in DOMAIN m)

\* volumeDB(True): the scope is opened for write access
WritableReq(r) == ReqOp(r) \in {"Create", "Remove"}
Writable(p) == WritableReq(req[p])
\* (variant: the lock of an open scope does not exclude other handles)
Busy_NoExclusion == orphan

\* the flock is held by some handle: LOCK_EX | LOCK_NB is refused
Busy == holders # {} \/ orphan

\* what an earlier run persisted: one volume, created without a path
InitMap == [n \in {"a"} |-> [k \in {"image"} |-> <<"x", ":", "latest">>]]

InitProcs ==
    /\ holders = {}
    /\ orphan = FALSE
    /\ pc = [p \in Procs |-> "idle"]
    /\ req = [p \in Procs |-> NoReq]
    /\ data = [p \in Procs |-> EmptyMap]
    /\ buf = [p \in Procs |-> <<>>]
    /\ result = [p \in Procs |-> Res("none", None)]
    /\ nreq = 0

\* The store is missing, or holds what an earlier run of the plugin persisted
\* (expect), intact or damaged: cut to a shorter length, or the text of two
\* flushes one after the other.
Init ==
    /\ InitProcs
    /\ \/ /\ expect = EmptyMap
          /\ fileExists = FALSE /\ fileBytes = <<>> /\ damage = "none"
       \/ /\ expect = InitMap
          /\ fileExists = TRUE
          /\ \/ fileBytes = jsonDump(InitMap) /\ damage = "none"
             \/ \E k \in 0..(Len(jsonDump(InitMap)) - 1) :
                  fileBytes = SubSeq(jsonDump(InitMap), 1, k) /\ damage = "truncated"
             \/ fileBytes = jsonDump(InitMap) \o jsonDump(InitMap) /\ damage = "invalid"
    /\ prev = expect

(* ---- requests ---- *)
\* (variant: the open of a write scope does not create a missing file)
Begin_NoCreate(p, r) ==
    /\ pc[p] = "idle"
    /\ nreq < MaxReqs
    /\ nreq' = nreq + 1
    /\ req' = [req EXCEPT ![p] = r]
    /\ data' = [data EXCEPT ![p] = EmptyMap]
    /\ result' = [result EXCEPT ![p] = Res("none", IF ReqOp(r) = "List" THEN <<>> ELSE None)]
    /\ pc' = [pc EXCEPT ![p] = IF fileExists \/ WritableReq(r) THEN "lock" ELSE "body"]
    /\ UNCHANGED <<fileExists, fileBytes, holders, orphan, buf, expect, prev, damage>>

\* A handler is entered and reaches its `with volumeDB(...)`: __init__ gives
\* the scope an empty _data; __enter__ line 87 decides whether to lock, and if
\* so acquire() first opens the file (mode 'a+' creates a missing file).
Begin(p, r) ==
    /\ pc[p] = "idle"
    /\ nreq < MaxReqs
    /\ nreq' = nreq + 1
    /\ req' = [req EXCEPT ![p] = r]
    /\ data' = [data EXCEPT ![p] = EmptyMap]
    /\ result' = [result EXCEPT ![p] = Res("none", IF ReqOp(r) = "List" THEN <<>> ELSE None)]
    /\ IF fileExists \/ WritableReq(r)
       THEN /\ fileExists' = TRUE
            /\ pc' = [pc EXCEPT ![p] = "lock"]
       ELSE /\ fileExists' = fileExists
            /\ pc' = [pc EXCEPT ![p] = "body"]
    /\ UNCHANGED <<fileBytes, holders, orphan, buf, expect, prev, damage>>

\* the handler returns or raises: its scope object and request are dropped
Finish(p, res) ==
    /\ pc' = [pc EXCEPT ![p] = "idle"]
    /\ req' = [req EXCEPT ![p] = NoReq]
    /\ data' = [data EXCEPT ![p] = EmptyMap]
    /\ result' = [result EXCEPT ![p] = res]

volumeCreate(p) ==
    \/ \E n \in Names, o \in CreateOpts :
        Begin(p, <<"Create", n, imageName(o[1]), o[2]>>)
    \/ Begin(p, <<"Create", Unhashable, imageName(<<"x">>), None>>)

volumeRemove(p) ==
    \E n \in Names \cup {Unhashable} :
        Begin(p, <<"Remove", n, <<>>, None>>)

\* volumeGet (suppress) and volumeMount (no suppress) up to getVolume
volumeGet(p) ==
    \E n \in Names, o \in {"Get", "Mount"} :
        Begin(p, <<o, n, <<>>, None>>)

\* volumeList: the scope of the listing is a read scope
volumeList(p) == Begin(p, <<"List", "", <<>>, None>>)

(* ---- volumeDB.__enter__ ---- *)
\* flock granted, then lines 93-97; a failing json.load leaves __enter__ by the
\* exception, __exit__ is not run and the locked handle is lost
Acquire(p) ==
    /\ pc[p] = "lock"
    /\ ~Busy
    /\ IF LoadFails(fileBytes)
       THEN /\ orphan' = TRUE
            /\ holders' = holders
            /\ Finish(p, Res("CorruptRegistry", None))
       ELSE /\ orphan' = orphan
            /\ holders' = holders \cup {p}
            /\ data' = [data EXCEPT ![p] = LoadData(fileBytes)]
            /\ pc' = [pc EXCEPT ![p] = "body"]
            /\ UNCHANGED <<req, result>>
    /\ UNCHANGED <<fileExists, fileBytes, buf, expect, prev, damage, nreq>>

\* flock refused until the timeout: acquire() raises LockException
AcquireTimeout(p) ==
    /\ pc[p] = "lock"
    /\ Busy
    /\ Finish(p, Res("RegistryUnavailable", None))
    /\ UNCHANGED <<fileExists, fileBytes, holders, orphan, buf, expect, prev, damage, nreq>>

\* the lost handle of a failed __enter__ is closed by the garbage collector
Finalize ==
    /\ orphan
    /\ orphan' = FALSE
    /\ UNCHANGED <<fileExists, fileBytes, holders, pc, req, data, buf, result, expect, prev, damage, nreq>>

(* ---- scope bodies and volumeDB.__exit__ ---- *)
\* body of volumeCreate/volumeRemove, then __exit__ lines 143-146
Commit(p) ==
    /\ pc[p] = "body"
    /\ Writable(p)
    /\ ReqName(req[p]) # Unhashable
    /\ LET new == ApplyReq(req[p], data[p]) IN
        /\ data' = [data EXCEPT ![p] = cleanupDict(new)]
        /\ fileBytes' = <<>>
        /\ buf' = [buf EXCEPT ![p] = jsonDump(cleanupDict(new))]
        /\ prev' = expect
        /\ expect' = ApplyReq(req[p], expect)
    /\ pc' = [pc EXCEPT ![p] = "flushed"]
    /\ UNCHANGED <<fileExists, holders, orphan, req, result, damage, nreq>>

\* (variant: `if self._write:` without `and not exc_type`)
Abort_Flushes(p) ==
    /\ pc[p] = "body"
    /\ Writable(p)
    /\ ReqName(req[p]) = Unhashable
    /\ fileBytes' = <<>>
    /\ buf' = [buf EXCEPT ![p] = jsonDump(cleanupDict(data[p]))]
    /\ pc' = [pc EXCEPT ![p] = "flushed"]
    /\ UNCHANGED <<fileExists, holders, orphan, req, data, result, expect, prev, damage, nreq>>

\* the body raises (TypeError: unhashable name): __exit__ only releases
Abort(p) ==
    /\ pc[p] = "body"
    /\ Writable(p)
    /\ ReqName(req[p]) = Unhashable
    /\ holders' = holders \ {p}
    /\ Finish(p, Res("Error", None))
    /\ UNCHANGED <<fileExists, fileBytes, orphan, buf, expect, prev, damage, nreq>>

\* release(), first half: unlock
Unlock(p) ==
    /\ pc[p] = "flushed"
    /\ holders' = holders \ {p}
    /\ pc' = [pc EXCEPT ![p] = "unlocked"]
    /\ UNCHANGED <<fileExists, fileBytes, orphan, req, data, buf, result, expect, prev, damage, nreq>>

\* release(), second half: close writes the buffered text at the end of the file
Close(p) ==
    /\ pc[p] = "unlocked"
    /\ fileBytes' = fileBytes \o buf[p]
    /\ buf' = [buf EXCEPT ![p] = <<>>]
    /\ prev' = expect
    /\ Finish(p, Res("ok", None))
    /\ UNCHANGED <<fileExists, holders, orphan, expect, damage, nreq>>

\* (variant: a missing name is suppressed like a missing image)
getVolume_Suppressed(p) ==
    /\ pc[p] = "body"
    /\ ReqOp(req[p]) \in {"Get", "Mount"}
    /\ holders' = holders \ {p}
    /\ IF ReqName(req[p]) \in DOMAIN data[p]
       THEN /\ pc' = [pc EXCEPT ![p] = "resolve"]
            /\ UNCHANGED <<req, data, result>>
       ELSE Finish(p, IF Supress(req[p]) THEN Res("ok", None)
                      ELSE Res("VolumeNotFound", None))
    /\ UNCHANGED <<fileExists, fileBytes, orphan, buf, expect, prev, damage, nreq>>

\* getVolume: lookup in a read scope, then __exit__ releases
getVolume(p) ==
    /\ pc[p] = "body"
    /\ ReqOp(req[p]) \in {"Get", "Mount"}
    /\ holders' = holders \ {p}
    /\ IF ReqName(req[p]) \in DOMAIN data[p]
       THEN /\ pc' = [pc EXCEPT ![p] = "resolve"]
            /\ UNCHANGED <<req, data, result>>
       ELSE Finish(p, Res("VolumeNotFound", None))
    /\ UNCHANGED <<fileExists, fileBytes, orphan, buf, expect, prev, damage, nreq>>

\* getVolumePath lines 197-206: the runtime has the image or not
getVolumePath(p) ==
    /\ pc[p] = "resolve"
    /\ \E present \in BOOLEAN :
        Finish(p, PathResult(Supress(req[p]), data[p][ReqName(req[p])], present))
    /\ UNCHANGED <<fileExists, fileBytes, holders, orphan, buf, expect, prev, damage, nreq>>

(* ---- volumeList ---- *)
\* lines 474-480: the lambda is applied to the next name of the mapping;
\* getVolumePath -> getVolume creates a second volumeDB() while the scope of
\* the listing is open
listEntry(p) ==
    /\ pc[p] = "body"
    /\ ReqOp(req[p]) = "List"
    /\ Len(Value(result[p])) < Len(ListNames(data[p]))
    /\ pc' = [pc EXCEPT ![p] = "nested"]
    /\ UNCHANGED <<fileExists, fileBytes, holders, orphan, req, data, buf, result,
                   expect, prev, damage, nreq>>

\* the second scope: __enter__ (lines 87-97) on a new handle of the same file,
\* the lookup of the name, __exit__, then getVolumePath with supress.  An
\* exception leaves volumeList through the __exit__ of the listing's scope.
getVolumeNested(p) ==
    /\ pc[p] = "nested"
    /\ LET name == ListNames(data[p])[Len(Value(result[p])) + 1]
           inner == IF fileExists THEN LoadData(fileBytes) ELSE EmptyMap
       IN  IF fileExists /\ Busy
           THEN /\ holders' = holders \ {p}
                /\ orphan' = orphan
                /\ Finish(p, Res("RegistryUnavailable", None))
           ELSE IF fileExists /\ LoadFails(fileBytes)
           THEN /\ holders' = holders \ {p}
                /\ orphan' = TRUE
                /\ Finish(p, Res("CorruptRegistry", None))
           ELSE IF name \notin DOMAIN inner
           THEN /\ holders' = holders \ {p}
                /\ orphan' = orphan
                /\ Finish(p, Res("VolumeNotFound", None))
           ELSE /\ \E present \in BOOLEAN :
                     result' = [result EXCEPT ![p] =
                         Res("none", Append(Value(result[p]),
                             <<name, Value(PathResult(TRUE, inner[name], present))>>))]
                /\ pc' = [pc EXCEPT ![p] = "body"]
                /\ UNCHANGED <<holders, orphan, req, data>>
    /\ UNCHANGED <<fileExists, fileBytes, buf, expect, prev, damage, nreq>>

\* every name is listed: the response is returned, __exit__ releases
listReturn(p) ==
    /\ pc[p] = "body"
    /\ ReqOp(req[p]) = "List"
    /\ Len(Value(result[p])) = Len(ListNames(data[p]))
    /\ holders' = holders \ {p}
    /\ Finish(p, Res("ok", Value(result[p])))
    /\ UNCHANGED <<fileExists, fileBytes, orphan, buf, expect, prev, damage, nreq>>

Step(p) ==
    \/ volumeCreate(p)
    \/ volumeRemove(p)
    \/ volumeGet(p)
    \/ Acquire(p)
    \/ AcquireTimeout(p)
    \/ Commit(p)
    \/ Abort(p)
    \/ Unlock(p)
    \/ Close(p)
    \/ getVolume(p)
    \/ getVolumePath(p)
    \/ volumeList(p)
    \/ listEntry(p)
    \/ getVolumeNested(p)
    \/ listReturn(p)

Next == (\E p \in Procs : Step(p)) \/ Finalize

Spec == Init /\ [][Next]_vars

\* One request at a time: a handler starts only when no other is running.
AllIdle == \A p \in Procs : pc[p] = "idle"
Alone(p) == \A q \in Procs \ {p} : pc[q] = "idle"

SeqStep(p) ==
    \/ Alone(p) /\ volumeCreate(p)
    \/ Alone(p) /\ volumeRemove(p)
    \/ Alone(p) /\ volumeGet(p)
    \/ Alone(p) /\ Acquire(p)
    \/ Alone(p) /\ AcquireTimeout(p)
    \/ Alone(p) /\ Commit(p)
    \/ Alone(p) /\ Abort(p)
    \/ Alone(p) /\ Unlock(p)
    \/ Alone(p) /\ Close(p)
    \/ Alone(p) /\ getVolume(p)
    \/ Alone(p) /\ getVolumePath(p)
    \/ Alone(p) /\ volumeList(p)
    \/ Alone(p) /\ listEntry(p)
    \/ Alone(p) /\ getVolumeNested(p)
    \/ Alone(p) /\ listReturn(p)

NextSeq == (\E p \in Procs : SeqStep(p)) \/ Finalize

SpecSeq == Init /\ [][NextSeq]_vars

\* The process stops inside a request: the operating system closes its handle
\* (the flock goes with it) and the text still buffered in the process is lost.
Crash(p) ==
    /\ pc[p] # "idle"
    /\ holders' = holders \ {p}
    /\ buf' = [buf EXCEPT ![p] = <<>>]
    /\ Finish(p, Res("crashed", None))
    /\ UNCHANGED <<fileExists, fileBytes, orphan, expect, prev, damage, nreq>>

NextCrash == NextSeq \/ (\E p \in Procs : Crash(p))

SpecCrash == Init /\ [][NextCrash]_vars

(* ======================= claims ======================= *)
\* a scope is open from the return of __enter__ until __exit__ releases the lock
ScopeOpen(p) == pc[p] \in {"body", "nested", "flushed"}
\* the mapping the store file holds
Registry == LoadData(fileBytes)

\* C1: no lost updates. The critical sections (acquire, load, mutate, flush,
\* release) of two write scopes never interleave, a write scope loads a mapping
\* that contains every change committed before it, and when all scopes are
\* closed the persisted mapping reflects all committed changes.
C1_NoLostUpdates ==
    /\ Cardinality({p \in Procs : Writable(p) /\ pc[p] \in {"body", "flushed", "unlocked"}}) <= 1
    /\ damage = "none" =>
         \A p \in Procs : (Writable(p) /\ pc[p] = "body") => data[p] = cleanupDict(expect)
    /\ (damage = "none" /\ AllIdle) =>
         (~LoadFails(fileBytes) /\ Registry = cleanupDict(expect))

\* C2 (as claimed): while a ReadWrite scope is open no other scope, ReadWrite or
\* ReadOnly, is open on the store, whatever the initial state of the store.
C2_NoScopeBesideWriter ==
    \A p, q \in Procs :
        (p # q /\ ScopeOpen(p) /\ Writable(p)) => ~ScopeOpen(q)

\* C2 (amended): an open ReadWrite scope holds the lock, at most one handle holds
\* the lock, and the only scope that can be open beside an open ReadWrite scope
\* is a ReadOnly scope that was opened while the store file was missing: it
\* holds no lock and exposes the empty mapping.
C2_ExclusiveAmongLockHolders ==
    /\ Cardinality(holders) <= 1
    /\ \A p \in Procs : (ScopeOpen(p) /\ Writable(p)) => p \in holders
    /\ \A p, q \in Procs :
        (p # q /\ ScopeOpen(p) /\ Writable(p) /\ ScopeOpen(q)) =>
            (~Writable(q) /\ q \notin holders /\ data[q] = EmptyMap)

\* C2 witness: a ReadWrite scope and a lock-free ReadOnly scope are open together
C2_Witness ==
    \E p, q \in Procs :
        p # q /\ ScopeOpen(p) /\ Writable(p) /\ p \in holders
              /\ ScopeOpen(q) /\ ~Writable(q)

\* C3: a ReadOnly scope that asks for the lock while only ReadOnly scopes hold
\* it is granted the lock at once (shared lock).
C3_ReadersShare ==
    \A p \in Procs :
        ( /\ pc[p] = "lock"
          /\ ~Writable(p)
          /\ ~orphan
          /\ \A q \in holders : ~Writable(q) ) => ENABLED Acquire(p)

\* C4: the flush is complete before the lock is released (no text is pending in
\* a handle that does not hold the lock), so every scope that loads the store
\* under the lock gets the complete mapping of the latest committed write
\* scope, and no load finds the store malformed.
C4_FlushUnderLock ==
    /\ \A p \in Procs : buf[p] # <<>> => p \in holders
    /\ damage = "none" =>
         \A p \in Procs : (pc[p] = "body" /\ p \in holders) => data[p] = cleanupDict(expect)
    /\ damage = "none" =>
         \A p \in Procs : Status(result[p]) # "CorruptRegistry"

\* C5: the lock is held only by scopes that are open; once a scope is left, in
\* any way, nothing of it holds the lock.
C5_LockReleasedOnExit ==
    /\ ~orphan
    /\ \A p \in holders : ScopeOpen(p)

\* C6: when the process stopped during a request and no request is running, the
\* store holds the complete mapping persisted before the last write scope or
\* the complete mapping of that scope.
C6_CrashConsistent ==
    (damage = "none" /\ AllIdle) =>
        /\ ~LoadFails(fileBytes)
        /\ Registry \in {cleanupDict(prev), cleanupDict(expect)}

\* C7: no step of a ReadOnly scope, and no step of a ReadWrite scope that is
\* left through an exception, changes the contents of the store; a ReadOnly
\* scope creates no file, and opened on a missing store it exposes the empty
\* mapping.
C7_NoCommitNoChange ==
    [][ \A p \in Procs :
          LET r == IF pc[p] = "idle" THEN req'[p] ELSE req[p] IN
          (pc'[p] # pc[p] /\ (~WritableReq(r) \/ ReqName(r) = Unhashable)) =>
             /\ fileBytes' = fileBytes
             /\ ~WritableReq(r) => fileExists' = fileExists
             /\ (pc[p] = "idle" /\ ~WritableReq(r) /\ ~fileExists) =>
                    (pc'[p] = "body" /\ data'[p] = EmptyMap) ]_vars

\* C7 witness: a ReadWrite scope was left through an exception and the store
\* holds a registry with records
C7_Witness ==
    \E p \in Procs :
        /\ Status(result[p]) = "Error"
        /\ damage = "none"
        /\ DOMAIN Registry # {}
        /\ fileBytes = jsonDump(cleanupDict(expect))

C9_RoundTrip ==
    damage = "none" =>
        \A p \in Procs :
            (pc[p] = "body" /\ ~Writable(p)) =>
                \A n \in DOMAIN expect :
                    /\ n \in DOMAIN data[p]
                    /\ data[p][n]["image"] = expect[n]["image"]
                    /\ GetPath(data[p][n]) = GetPath(expect[n])

\* C9 witness: a ReadOnly scope has loaded a record that was created with an
\* absent path, and the record has no path field
C9_Witness ==
    \E p \in Procs, n \in Names :
        /\ pc[p] = "body" /\ ~Writable(p)
        /\ n \in DOMAIN expect /\ n \in DOMAIN data[p]
        /\ "path" \in DOMAIN expect[n] /\ expect[n]["path"] = None
        /\ "path" \notin DOMAIN data[p][n]

\* C10 (as claimed): a write scope never persists, for a name it found
\* registered, a record that differs from the one it found.
C10_NoInPlaceChange ==
    [][ \A p \in Procs, n \in Names :
          ( /\ pc[p] = "body" /\ pc'[p] = "flushed"
            /\ n \in DOMAIN data[p] /\ n \in DOMAIN jsonLoad(buf'[p]) ) =>
             jsonLoad(buf'[p])[n] = data[p][n] ]_vars

\* C10 (amended): a write scope persists the records of all names other than
\* the request's as it found them; Remove deletes the record of its name and
\* Create stores the request's image and path under its name, also when the
\* name was registered already (overwrite in place).
C10_ChangeOnlyByOwnName ==
    [][ \A p \in Procs :
          (pc[p] = "body" /\ pc'[p] = "flushed") =>
             LET old == data[p]
                 new == jsonLoad(buf'[p])
                 name == ReqName(req[p])
             IN /\ \A n \in Names \ {name} :
                     /\ n \in DOMAIN old <=> n \in DOMAIN new
                     /\ n \in DOMAIN old => new[n] = old[n]
                /\ ReqOp(req[p]) = "Remove" => name \notin DOMAIN new
                /\ ReqOp(req[p]) = "Create" =>
                     /\ name \in DOMAIN new
                     /\ new[name]["image"] = ReqImage(req[p])
                     /\ GetPath(new[name]) = ReqPath(req[p]) ]_vars

\* C10 witness: a Create on a registered name has replaced its record
C10_Witness ==
    \E p \in Procs :
        /\ pc[p] = "flushed" /\ ReqOp(req[p]) = "Create"
        /\ damage = "none"
        /\ ReqName(req[p]) \in DOMAIN prev
        /\ cleanupDict(prev)[ReqName(req[p])] # data[p][ReqName(req[p])]

\* the record volumeCreate stores for its request (lines 396-399)
ReqRecord(r) == [k \in {"image", "path"} |-> IF k = "image" THEN ReqImage(r) ELSE ReqPath(r)]

\* C11: duplicate create is always overwrite. A Create whose name is in the
\* mapping its scope loaded is never rejected: whatever the old record, the
\* new one and the other requests running, the scope flushes a mapping that
\* holds under that name exactly the record of the request, and the request
\* returns without error.
C11_AlwaysOverwrite ==
    [][ \A p \in Procs :
          /\ ( /\ pc[p] = "body" /\ pc'[p] # "body"
               /\ ReqOp(req[p]) = "Create"
               /\ ReqName(req[p]) \in DOMAIN data[p] ) =>
                 /\ pc'[p] = "flushed"
                 /\ jsonValid(buf'[p])
                 /\ ReqName(req[p]) \in DOMAIN jsonLoad(buf'[p])
                 /\ jsonLoad(buf'[p])[ReqName(req[p])] = cleanupEntry(ReqRecord(req[p]))
          /\ (pc[p] \in {"flushed", "unlocked"} /\ pc'[p] = "idle") =>
                 Status(result'[p]) = "ok" ]_vars

\* C11 witness: a Create on a registered name has flushed and unlocked, and the
\* record it wrote differs from the one registered before
C11_Witness ==
    \E p \in Procs :
        /\ pc[p] = "unlocked" /\ ReqOp(req[p]) = "Create"
        /\ damage = "none"
        /\ ReqName(req[p]) \in DOMAIN prev
        /\ jsonLoad(buf[p])[ReqName(req[p])] = cleanupEntry(ReqRecord(req[p]))
        /\ jsonLoad(buf[p])[ReqName(req[p])] # cleanupDict(prev)[ReqName(req[p])]

\* C12: requests running one after the other, a Remove returns without error
\* and persists the registry it found without the record of its name: the
\* records of all other names are unchanged, a Remove of a name that is not
\* registered (a second Remove as well) leaves the registry as it was, and
\* removing the name again from the result changes nothing.
C12_RemoveIdempotentLocal ==
    [][ \A p \in Procs :
          ( /\ pc[p] = "unlocked" /\ pc'[p] = "idle"
            /\ ReqOp(req[p]) = "Remove"
            /\ damage = "none" ) =>
             LET before == cleanupDict(prev)
                 after == LoadData(fileBytes')
                 name == ReqName(req[p])
             IN /\ Status(result'[p]) = "ok"
                /\ ~LoadFails(fileBytes')
                /\ name \notin DOMAIN after
                /\ \A n \in Names \ {name} :
                     /\ n \in DOMAIN before <=> n \in DOMAIN after
                     /\ n \in DOMAIN before => after[n] = before[n]
                /\ name \notin DOMAIN before => after = before
                /\ Pop(after, name) = after ]_vars

\* C12 witness: a Remove of a name that is not registered has flushed a registry
\* that holds records of other names
C12_Witness ==
    \E p \in Procs :
        /\ pc[p] = "unlocked" /\ ReqOp(req[p]) = "Remove"
        /\ damage = "none"
        /\ ReqName(req[p]) \in Names
        /\ ReqName(req[p]) \notin DOMAIN prev
        /\ DOMAIN prev # {}
        /\ jsonLoad(buf[p]) = cleanupDict(prev)

\* the image name has a tag delimiter
HasTag(image) == \E i \in DOMAIN image : image[i] = ":"
\* image names of requests: those of CreateOpts, the empty name, names that
\* start or end with the delimiter, and a name with a default tag already
Images ==
    {o[1] : o \in CreateOpts} \cup
    {<<>>, <<":">>, <<"x", ":">>, <<":", "1">>, <<"x", ":", "latest">>}
\* every record of a mapping has a tagged image
AllTagged(m) == \A n \in DOMAIN m : HasTag(m[n]["image"])

\* C13: tag normalization. imageName appends ":latest" exactly once to a name
\* without ":", returns a name with ":" unchanged and is idempotent; the image
\* of every Create request in flight is the normalized image of its Opts, and
\* every record of every loaded mapping, of every flushed text and of the
\* store has an image with a tag delimiter.
C13_TagNormalized ==
    /\ \A i \in Images :
         /\ ~HasTag(i) => imageName(i) = i \o <<":", "latest">>
         /\ HasTag(i) => imageName(i) = i
         /\ imageName(imageName(i)) = imageName(i)
         /\ HasTag(imageName(i))
    /\ \A p \in Procs :
         /\ ReqOp(req[p]) = "Create" =>
               ReqImage(req[p]) \in {<<"x", ":", "latest">>, <<"y", ":", "1">>}
         /\ AllTagged(data[p])
         /\ jsonValid(buf[p]) => AllTagged(jsonLoad(buf[p]))
    /\ ~LoadFails(fileBytes) => AllTagged(Registry)

\* C13 witness: the store holds a record whose image got the default tag and a
\* record created with a tag
C13_Witness ==
    /\ AllIdle /\ damage = "none" /\ ~LoadFails(fileBytes)
    /\ \E n, m \in DOMAIN Registry :
         /\ Registry[n]["image"] = <<"x", ":", "latest">>
         /\ Registry[m]["image"] = <<"y", ":", "1">>
         /\ "b" \in {n, m}

\* C14: every record of the store either has no path field or has a path that
\* is not empty and does not start with "/".
C14_PathInvariant ==
    ~LoadFails(fileBytes) =>
        \A n \in DOMAIN Registry :
            "path" \in DOMAIN Registry[n] =>
                /\ Registry[n]["path"] # <<>>
                /\ Registry[n]["path"][1] # "/"

\* C15: a Get (supress) or Mount (no supress) of a name that is not in the
\* mapping its read scope loaded fails with VolumeNotFound, without asking the
\* runtime; a Get or Mount that returns a result, null included, found its name
\* in the mapping.
C15_AbsentNeverSuppressed ==
    [][ \A p \in Procs :
          /\ ( /\ pc[p] = "body" /\ pc'[p] # "body"
               /\ ReqOp(req[p]) \in {"Get", "Mount"}
               /\ ReqName(req[p]) \notin DOMAIN data[p] ) =>
                 (pc'[p] = "idle" /\ result'[p] = Res("VolumeNotFound", None))
          /\ ( /\ ReqOp(req[p]) \in {"Get", "Mount"}
               /\ pc'[p] = "idle"
               /\ Status(result'[p]) = "ok" ) =>
                 (pc[p] = "resolve" /\ ReqName(req[p]) \in DOMAIN data[p]) ]_vars

\* C15 witness: a request has failed with VolumeNotFound while the store holds
\* records of other names
C15_Witness ==
    \E p \in Procs :
        /\ result[p] = Res("VolumeNotFound", None)
        /\ damage = "none" /\ ~LoadFails(fileBytes)
        /\ DOMAIN Registry # {}

\* the records a scope has loaded
Loaded == UNION {{data[p][n] : n \in DOMAIN data[p]} : p \in Procs}

\* C16: for a volume found, image absent: without supress the resolution
\* fails with ImageNotFound, with supress it returns None; image present: both
\* return the same path, which is not None.  Get resolves with supress, Mount
\* without, and their outcomes are these.
C16_SuppressOnlyByFlag ==
    /\ [](\A vol \in Loaded :
            /\ PathResult(FALSE, vol, FALSE) = Res("ImageNotFound", None)
            /\ PathResult(TRUE, vol, FALSE) = Res("ok", None)
            /\ PathResult(TRUE, vol, TRUE) = PathResult(FALSE, vol, TRUE)
            /\ Status(PathResult(TRUE, vol, TRUE)) = "ok"
            /\ Value(PathResult(TRUE, vol, TRUE)) # None)
    /\ [][ \A p \in Procs :
             (pc[p] = "resolve" /\ pc'[p] # "resolve") =>
                LET path == JoinPath(UpperDir, GetPath(data[p][ReqName(req[p])])) IN
                /\ ReqOp(req[p]) = "Get" =>
                      result'[p] \in {Res("ok", None), Res("ok", path)}
                /\ ReqOp(req[p]) = "Mount" =>
                      result'[p] \in {Res("ImageNotFound", None), Res("ok", path)} ]_vars

\* C16 witness: a Mount has failed with ImageNotFound on a registered volume
C16_Witness ==
    \E p \in Procs :
        /\ result[p] = Res("ImageNotFound", None)
        /\ damage = "none" /\ ~LoadFails(fileBytes)

\* paths of records: absent, empty, relative, absolute, nested
SamplePaths == {None, <<>>, <<"d">>, <<"/", "d">>, <<"d", "/", "e">>}
\* v is P unchanged when the path is absent or empty, else P, one "/", the path
JoinedAs(v, P, path) ==
    IF path = None \/ path = <<>>
    THEN v = P
    ELSE /\ Len(v) = Len(P) + 1 + Len(path)
         /\ SubSeq(v, 1, Len(P)) = P
         /\ v[Len(P) + 1] = "/"
         /\ SubSeq(v, Len(P) + 2, Len(v)) = path

\* C17: path join. The path returned for a record whose image resolves to P
\* is P unchanged when the record has no path or an empty one, and otherwise
\* P, one separator and the record's path, for every path value.
C17_PathJoin ==
    /\ [](\A path \in SamplePaths : JoinedAs(JoinPath(UpperDir, path), UpperDir, path))
    /\ [][ \A p \in Procs :
             ( /\ pc[p] = "resolve" /\ pc'[p] # "resolve"
               /\ result'[p] # Res("ok", None)
               /\ Status(result'[p]) = "ok" ) =>
                JoinedAs(Value(result'[p]), UpperDir, GetPath(data[p][ReqName(req[p])])) ]_vars

\* C17 witness: a record with a path has been resolved to the upper directory,
\* a separator and the path
C17_Witness ==
    \E p \in Procs :
        /\ Status(result[p]) = "ok"
        /\ Value(result[p]) = UpperDir \o <<"/", "d">>

\* C18: a List that has opened its scope returns a result with one entry per
\* name of the mapping, in order, each with the mount path of its record or
\* None; it does not fail.
C18_ListComplete ==
    [][ \A p \in Procs :
          ( /\ ReqOp(req[p]) = "List"
            /\ pc[p] \in {"body", "nested"}
            /\ pc'[p] = "idle" ) =>
             LET names == ListNames(data[p])
                 out == Value(result'[p])
             IN /\ Status(result'[p]) = "ok"
                /\ Len(out) = Len(names)
                /\ \A i \in 1..Len(names) :
                     /\ out[i][1] = names[i]
                     /\ out[i][2] \in {None, JoinPath(UpperDir, GetPath(data[p][names[i]]))} ]_vars

\* C19 (as claimed): the store file comes into existence only by a flush.
C19_MaterializedAtFlush ==
    [][ fileExists' # fileExists =>
          \E p \in Procs : pc[p] = "body" /\ pc'[p] = "flushed" ]_vars

\* C19 (amended): the open of a ReadWrite scope on a missing store creates the
\* file, empty, before it asks for the lock; with the lock granted the scope
\* gets the empty mapping without error; a scope left through an exception
\* writes nothing, so the file is there afterwards, with the contents it had;
\* the file is never removed.
C19_CreatedAtOpen ==
    [][ /\ \A p \in Procs :
             /\ (pc[p] = "idle" /\ pc'[p] # "idle" /\ WritableReq(req'[p]) /\ ~fileExists) =>
                    (fileExists' /\ fileBytes' = <<>> /\ pc'[p] = "lock")
             /\ (pc[p] = "lock" /\ pc'[p] # "lock" /\ Writable(p) /\ fileBytes = <<>> /\ ~Busy) =>
                    (pc'[p] = "body" /\ data'[p] = EmptyMap /\ Status(result'[p]) = "none")
             /\ (pc[p] = "body" /\ pc'[p] = "idle" /\ Writable(p)) =>
                    (fileExists /\ fileExists' /\ fileBytes' = fileBytes)
        /\ fileExists => fileExists' ]_vars

\* C19 witness: the only request so far, a ReadWrite scope on a missing store,
\* was left through an exception and the file exists, empty
C19_Witness ==
    \E p \in Procs :
        /\ nreq = 1
        /\ Status(result[p]) = "Error"
        /\ damage = "none" /\ expect = EmptyMap
        /\ fileExists /\ fileBytes = <<>>

\* C20: the second scope that a List opens for a listed name gets the lock
\* when no other request holds it: the lock of the listing's own scope does
\* not make the List fail.
C20_NestedNeverBlocked ==
    [][ \A p \in Procs :
          ( /\ pc[p] = "nested" /\ pc'[p] # "nested"
            /\ holders \subseteq {p}
            /\ ~orphan ) =>
             (pc'[p] = "body" /\ Status(result'[p]) # "RegistryUnavailable") ]_vars

====
